---- MODULE Spec2Model ----
(***************************************************************************)
(* Speed test over UDP broadcast discovery, TCP and UDP bulk transfers.    *)
(* Model of Speed_Test_Client.py and Speed_Test_Server.py.                 *)
(*                                                                         *)
(* Every thread of the two programs is a component with its own record of  *)
(* local variables, named as in the source.  A component whose pc is "off" *)
(* has not been started.  Each specification starts the components one     *)
(* group of claims is about and leaves the others off.                     *)
(*                                                                         *)
(* A datagram is a record [hdr, plen]: hdr is the sequence of its leading  *)
(* bytes (the whole datagram when it carries no payload) and plen is the   *)
(* number of pseudorandom payload bytes after them.  The programs read     *)
(* only the length of a payload, never its content.                        *)
(***************************************************************************)
EXTENDS Integers, Sequences, FiniteSets, TLC

VARIABLES
    udp_server,     \* SpeedTestServer._handle_udp_requests: its loop and locals
    udp_handlers,   \* the _handle_udp_client threads, in the order they started
    udp_transfers,  \* SpeedTestClient._udp_transfer: one record of locals per thread
    client,         \* SpeedTestClient.start and what it calls: the main thread
    threads,        \* the threads list of _run_speed_test
    broadcaster,    \* SpeedTestServer._broadcast_offers: its loop
    tcp_server,     \* SpeedTestServer._handle_tcp_connections: its loop
    tcp_conns,      \* the TCP connections made to the server's TCP port
    tcp_handlers,   \* SpeedTestServer._handle_tcp_client: connection c's thread
    tcp_transfers   \* SpeedTestClient._tcp_transfer: connection c's thread

udpVars == <<udp_server, udp_handlers>>
clientVars == <<client, threads>>
tcpVars == <<tcp_server, tcp_conns, tcp_handlers, tcp_transfers>>

vars == <<udpVars, udp_transfers, clientVars, tcpVars, broadcaster>>
notUdpServer == <<udp_transfers, clientVars, tcpVars, broadcaster>>
notUdpClient == <<udpVars, clientVars, tcpVars, broadcaster>>
notClient == <<udpVars, udp_transfers, tcpVars, broadcaster>>
notTcp == <<udpVars, udp_transfers, clientVars, broadcaster>>
notBroadcaster == <<udpVars, udp_transfers, clientVars, tcpVars>>

(***************************************************************************)
(* Constants of the two programs.                                          *)
(***************************************************************************)
MAGIC_COOKIE == <<171, 205, 220, 186>>      \* 0xabcddcba, big-endian
OFFER_MSG_TYPE == 2
REQUEST_MSG_TYPE == 3
PAYLOAD_MSG_TYPE == 4
segment_size == 1024
chunk_size == 1024
RECV_BUFSIZE == 1024    \* recv(1024), on both sides of a TCP connection
OFFER_TIMEOUT == 10     \* settimeout(10.0), in ticks of one second
OFFER_LEN == 9
REQUEST_LEN == 13
PAYLOAD_HEADER_LEN == 21

(***************************************************************************)
(* Bounds of the model.                                                    *)
(***************************************************************************)
MaxUdpRecv == 2         \* recvfrom calls of the server's UDP loop
MaxBroadcast == 2       \* rounds of the broadcaster's loop
MaxAcceptErrors == 1    \* calls of accept that raise
MaxCount == 2           \* tcp_count and udp_count are at most this
MaxLaunch == 1          \* the same, where each transfer thread is followed
MaxOfferRecv == 2       \* datagrams one call of _wait_for_offer receives
MaxWindow == 12         \* seconds one call of _wait_for_offer is followed for
MaxUdpClientRecv == 3   \* datagrams one client UDP transfer receives
InactivityTicks == 2    \* clock ticks in the 1.0 s of the client's UDP timeout

FileSizes == {0, 1024, 1025, 2049}          \* what a Request may ask for
ConfigFileSizes == {1024, 1025, 2049}       \* what _get_user_input accepts: > 0
ServerIp == "10.0.0.1"
Addrs == {<<"10.0.0.7", 40001>>, <<"10.0.0.7", 40002>>}

(***************************************************************************)
(* struct.pack / struct.unpack, network byte order.                        *)
(***************************************************************************)
RECURSIVE BE(_, _)
\* n as k big-endian bytes ('H' is k = 2, 'I' is k = 4, 'Q' is k = 8)
BE(n, k) ==
    IF k = 0 THEN <<>> ELSE Append(BE(n \div 256, k - 1), n % 256)

RECURSIVE FromBE(_)
\* the unsigned integer a big-endian byte string encodes
FromBE(bs) ==
    IF bs = <<>> THEN 0
    ELSE FromBE(SubSeq(bs, 1, Len(bs) - 1)) * 256 + bs[Len(bs)]

\* 'b': one signed byte
PackSignedByte(v) == <<IF v < 0 THEN v + 256 ELSE v>>
UnpackSignedByte(b) == IF b >= 128 THEN b - 256 ELSE b

Min(a, b) == IF a < b THEN a ELSE b

Dgram(hdr, plen) == [hdr |-> hdr, plen |-> plen]
DgramLen(d) == Len(d.hdr) + d.plen

\* struct.pack('!IbQ', MAGIC_COOKIE, REQUEST_MSG_TYPE, file_size)
PackRequest(file_size) ==
    MAGIC_COOKIE \o PackSignedByte(REQUEST_MSG_TYPE) \o BE(file_size, 8)

\* struct.unpack('!IbQ', data[:13])
UnpackRequest(bs) ==
    [magic     |-> SubSeq(bs, 1, 4),
     msg_type  |-> UnpackSignedByte(bs[5]),
     file_size |-> FromBE(SubSeq(bs, 6, 13))]

\* struct.pack('!IbHH', MAGIC_COOKIE, OFFER_MSG_TYPE, self.udp_port, self.tcp_port)
PackOffer(udp_port, tcp_port) ==
    MAGIC_COOKIE \o PackSignedByte(OFFER_MSG_TYPE)
        \o BE(udp_port, 2) \o BE(tcp_port, 2)

\* a slip: the two ports are read in the other order
UnpackOfferSwapped(bs) ==
    [magic    |-> SubSeq(bs, 1, 4),
     msg_type |-> UnpackSignedByte(bs[5]),
     udp_port |-> FromBE(SubSeq(bs, 8, 9)),
     tcp_port |-> FromBE(SubSeq(bs, 6, 7))]

\* struct.unpack('!IbHH', data[:9])
UnpackOffer(bs) ==
    [magic    |-> SubSeq(bs, 1, 4),
     msg_type |-> UnpackSignedByte(bs[5]),
     udp_port |-> FromBE(SubSeq(bs, 6, 7)),
     tcp_port |-> FromBE(SubSeq(bs, 8, 9))]

\* a slip: the two counters are packed in the other order
PackPayloadHeaderSwapped(total_segments, segment_num) ==
    MAGIC_COOKIE \o PackSignedByte(PAYLOAD_MSG_TYPE)
        \o BE(segment_num, 8) \o BE(total_segments, 8)

\* struct.pack('!IbQQ', MAGIC_COOKIE, PAYLOAD_MSG_TYPE, total_segments, segment_num)
PackPayloadHeader(total_segments, segment_num) ==
    MAGIC_COOKIE \o PackSignedByte(PAYLOAD_MSG_TYPE)
        \o BE(total_segments, 8) \o BE(segment_num, 8)

(***************************************************************************)
(* Server, UDP side: _handle_udp_requests and _handle_udp_client.          *)
(***************************************************************************)

\* What may arrive at the server's UDP socket: Requests as clients pack them
\* (also with bytes after the header), and datagrams that are no Request.
RequestDatagrams ==
    {Dgram(PackRequest(fs), 0) : fs \in FileSizes}
        \cup {Dgram(PackRequest(1025), 3)}
NonRequestDatagrams ==
    {Dgram(<<>>, 0),                                               \* empty
     Dgram(SubSeq(PackRequest(1024), 1, 12), 0),                   \* too short
     Dgram(<<171, 205, 220, 187>> \o <<3>> \o BE(1024, 8), 0),     \* bad magic
     Dgram(MAGIC_COOKIE \o <<2>> \o BE(1024, 8), 0),               \* an Offer's type
     Dgram(MAGIC_COOKIE \o <<131>> \o BE(1024, 8), 0),             \* type 0x83
     Dgram(PackPayloadHeader(1, 0), 1)}                            \* a Payload
ServerDatagrams == RequestDatagrams \cup NonRequestDatagrams

\* a slip: the division rounds down
TotalSegmentsFloor(file_size) == file_size \div segment_size

\* ceil(file_size / 1024) as the handler computes it
TotalSegments(file_size) == (file_size + segment_size - 1) \div segment_size

\* the payload length of segment segment_num
CurrSegmentSize(file_size, segment_num) ==
    Min(segment_size, file_size - (segment_num * segment_size))

\* threading.Thread(target=self._handle_udp_client, args=(addr, file_size)).start()
NewUdpHandler(addr, file_size) ==
    [pc |-> "start", addr |-> addr, file_size |-> file_size,
     total_segments |-> 0, segment_num |-> 0,
     out |-> <<>>]       \* the packets passed to sendto(packet, addr), in order

\* a slip: the magic cookie is not compared
UdpDispatchAnyMagic(data, addr) ==
    IF DgramLen(data) = 0 THEN udp_handlers
    ELSE IF DgramLen(data) >= REQUEST_LEN
    THEN LET u == UnpackRequest(data.hdr) IN
         IF u.msg_type = REQUEST_MSG_TYPE
         THEN Append(udp_handlers, NewUdpHandler(addr, u.file_size))
         ELSE udp_handlers
    ELSE udp_handlers

\* a slip: every handler is given the address the first Request came from
UdpDispatchFirstAddr(data, addr) ==
    IF DgramLen(data) = 0 THEN udp_handlers
    ELSE IF DgramLen(data) >= REQUEST_LEN
    THEN LET u == UnpackRequest(data.hdr) IN
         IF u.magic = MAGIC_COOKIE /\ u.msg_type = REQUEST_MSG_TYPE
         THEN Append(udp_handlers,
                     NewUdpHandler(IF udp_handlers = <<>> THEN addr
                                   ELSE udp_handlers[1].addr, u.file_size))
         ELSE udp_handlers
    ELSE udp_handlers

\* the loop's decision on one received datagram: the handlers after it
UdpDispatch(data, addr) ==
    IF DgramLen(data) = 0 THEN udp_handlers
    ELSE IF DgramLen(data) >= REQUEST_LEN
    THEN LET u == UnpackRequest(data.hdr) IN
         IF u.magic = MAGIC_COOKIE /\ u.msg_type = REQUEST_MSG_TYPE
         THEN Append(udp_handlers, NewUdpHandler(addr, u.file_size))
         ELSE udp_handlers
    ELSE udp_handlers

\* one iteration of the while loop: recvfrom returns data from addr
handle_udp_requests_recv ==
    /\ udp_server.pc = "recv"
    /\ udp_server.recvs < MaxUdpRecv
    /\ \E data \in ServerDatagrams, addr \in Addrs :
        /\ udp_handlers' = UdpDispatch(data, addr)
        /\ udp_server' = [udp_server EXCEPT !.recvs = @ + 1, !.data = data,
                                            !.last = "data"]

\* one iteration of the while loop: recvfrom raises socket.error
handle_udp_requests_error ==
    /\ udp_server.pc = "recv"
    /\ udp_server.recvs < MaxUdpRecv
    /\ udp_server' = [udp_server EXCEPT !.recvs = @ + 1, !.last = "error",
                                        !.errors = @ + 1]
    /\ UNCHANGED udp_handlers

\* the handler thread begins: total_segments, then the first range() step
handle_udp_client_begin(h) ==
    /\ udp_handlers[h].pc = "start"
    /\ LET total == TotalSegments(udp_handlers[h].file_size) IN
       udp_handlers' = [udp_handlers EXCEPT ![h].total_segments = total,
                                            ![h].pc = "loop"]
    /\ UNCHANGED udp_server

\* one iteration of the for loop: a packet is built and sendto succeeds
handle_udp_client_send(h) ==
    LET hd == udp_handlers[h] IN
    /\ hd.pc = "loop"
    /\ hd.segment_num < hd.total_segments
    /\ LET packet == Dgram(PackPayloadHeader(hd.total_segments, hd.segment_num),
                           CurrSegmentSize(hd.file_size, hd.segment_num))
       IN  udp_handlers' = [udp_handlers EXCEPT ![h].out = Append(@, packet),
                                                ![h].segment_num = @ + 1]
    /\ UNCHANGED udp_server

\* one iteration of the for loop: sendto raises, the handler logs and ends
handle_udp_client_fail(h) ==
    LET hd == udp_handlers[h] IN
    /\ hd.pc = "loop"
    /\ hd.segment_num < hd.total_segments
    /\ udp_handlers' = [udp_handlers EXCEPT ![h].pc = "error"]
    /\ UNCHANGED udp_server

\* range(total_segments) is exhausted: the handler returns
handle_udp_client_end(h) ==
    LET hd == udp_handlers[h] IN
    /\ hd.pc = "loop"
    /\ hd.segment_num = hd.total_segments
    /\ udp_handlers' = [udp_handlers EXCEPT ![h].pc = "done"]
    /\ UNCHANGED udp_server

UdpServerOff ==
    [pc |-> "off",
     recvs |-> 0,               \* calls of recvfrom so far
     last |-> "none",           \* how the last one ended: "data" or "error"
     errors |-> 0,              \* how many of them raised
     data |-> Dgram(<<>>, 0)]

\* the broadcaster thread of a server that was not started
BroadcasterOff ==
    [pc |-> "off", udp_port |-> 0, tcp_port |-> 0,
     rounds |-> 0,              \* rounds of the loop so far
     last |-> "none",           \* how the last one ended: "sent" or "error"
     errors |-> 0,              \* how many of them raised
     offer_message |-> Dgram(<<>>, 0)]

\* the accept loop of a server that was not started
TcpServerOff ==
    [pc |-> "off",
     last |-> "none",           \* how the last accept ended: "accepted" or "error"
     errors |-> 0]              \* how many of them raised

\* the main thread of a client that was not started
ClientOff ==
    [pc |-> "off", file_size |-> 0, tcp_count |-> 0, udp_count |-> 0,
     server_ip |-> "", server_ports |-> <<>>,
     data |-> Dgram(<<>>, 0), addr |-> <<"", 0>>,
     idle |-> 0,            \* seconds the pending recvfrom has waited
     window |-> 0,          \* seconds since _wait_for_offer was called
     recvs |-> 0,           \* datagrams recvfrom returned in this call
     discarded |-> FALSE,   \* a datagram was received and ignored in this call
     timed_out |-> FALSE,   \* socket.timeout was caught in this call
     tested |-> FALSE,      \* a speed test has returned since start was called
     i |-> 0,               \* the index of the running for loop
     peak |-> 0]            \* the most threads of one test that ran at a time

UdpServerInit ==
    /\ tcp_conns = <<>> /\ tcp_handlers = <<>> /\ tcp_transfers = <<>>
    /\ broadcaster = BroadcasterOff /\ tcp_server = TcpServerOff
    /\ udp_server = [UdpServerOff EXCEPT !.pc = "recv"]
    /\ udp_handlers = <<>>
    /\ udp_transfers = <<>>
    /\ client = ClientOff
    /\ threads = <<>>

UdpServerNext ==
    \/ handle_udp_requests_recv /\ UNCHANGED notUdpServer
    \/ handle_udp_requests_error /\ UNCHANGED notUdpServer
    \/ \E h \in 1..Len(udp_handlers) :
            handle_udp_client_begin(h) /\ UNCHANGED notUdpServer
    \/ \E h \in 1..Len(udp_handlers) :
            handle_udp_client_send(h) /\ UNCHANGED notUdpServer
    \/ \E h \in 1..Len(udp_handlers) :
            handle_udp_client_fail(h) /\ UNCHANGED notUdpServer
    \/ \E h \in 1..Len(udp_handlers) :
            handle_udp_client_end(h) /\ UNCHANGED notUdpServer

\* the server's UDP side alone, fed any datagrams
SpecUdpServer == UdpServerInit /\ [][UdpServerNext]_vars

(***************************************************************************)
(* Client, one UDP transfer: _udp_transfer.                                *)
(***************************************************************************)

\* struct.unpack('!IbQQ', data[:21])
UnpackPayloadHeader(bs) ==
    [magic      |-> SubSeq(bs, 1, 4),
     msg_type   |-> UnpackSignedByte(bs[5]),
     total_segs |-> FromBE(SubSeq(bs, 6, 13)),
     seg_num    |-> FromBE(SubSeq(bs, 14, 21))]

\* What may arrive at a transfer's socket, which is bound to no peer: Payload
\* datagrams of a server answering 1025 bytes, the same segment again with
\* another payload, Payloads of another numbering, and non-Payloads.
PayloadDatagrams ==
    {Dgram(PackPayloadHeader(2, 0), 1024),
     Dgram(PackPayloadHeader(2, 1), 1),
     Dgram(PackPayloadHeader(2, 0), 1),
     Dgram(PackPayloadHeader(1, 0), 1024),
     Dgram(PackPayloadHeader(1, 1), 7)}
NonPayloadDatagrams ==
    {Dgram(<<>>, 0),                                                \* empty
     Dgram(SubSeq(PackPayloadHeader(2, 1), 1, 20), 0),              \* too short
     Dgram(<<171, 205, 220, 187, 4>> \o BE(2, 8) \o BE(1, 8), 9),   \* bad magic
     Dgram(MAGIC_COOKIE \o <<3>> \o BE(2, 8) \o BE(1, 8), 9)}      \* a Request's type
ClientDatagrams == PayloadDatagrams \cup NonPayloadDatagrams

\* the thread as threading.Thread(target=self._udp_transfer, args=...) makes it
NewUdpTransfer(server_ip, server_port, file_size, transfer_num) ==
    [pc |-> "start",
     server_ip |-> server_ip, server_port |-> server_port,
     file_size |-> file_size, transfer_num |-> transfer_num,
     request |-> <<>>,              \* <<[to, dg]>> once sendto has sent it
     request_delivered |-> FALSE,   \* the server's recvfrom has returned it
     taken |-> {},                  \* <<h, k>>: handler h's k-th packet came in
     bytes_received |-> 0,
     segments_received |-> {},
     total_segments |-> <<>>,       \* <<>> is None, <<n>> is n
     idle |-> 0,                    \* ticks since last_packet_time
     recvs |-> 0,
     log |-> <<>>,                  \* what recvfrom has returned, in order
     success_rate |-> <<>>]         \* <<[num, den]>> once computed: num / den

\* the body of the receive loop after recvfrom returned data: the locals after it
\* (a slip: a segment seen before is counted again)
UdpAccountNoDedup(tr, data) ==
    IF DgramLen(data) < PAYLOAD_HEADER_LEN THEN tr
    ELSE LET u == UnpackPayloadHeader(data.hdr) IN
         IF u.magic # MAGIC_COOKIE \/ u.msg_type # PAYLOAD_MSG_TYPE THEN tr
         ELSE [tr EXCEPT
                 !.total_segments = IF @ = <<>> THEN <<u.total_segs>> ELSE @,
                 !.segments_received = @ \cup {u.seg_num},
                 !.bytes_received = @ + (DgramLen(data) - PAYLOAD_HEADER_LEN)]

\* the body of the receive loop after recvfrom returned data: the locals after it
UdpAccount(tr, data) ==
    IF DgramLen(data) < PAYLOAD_HEADER_LEN THEN tr
    ELSE LET u == UnpackPayloadHeader(data.hdr) IN
         IF u.magic # MAGIC_COOKIE \/ u.msg_type # PAYLOAD_MSG_TYPE THEN tr
         ELSE [tr EXCEPT
                 !.total_segments = IF @ = <<>> THEN <<u.total_segs>> ELSE @,
                 !.segments_received = @ \cup {u.seg_num},
                 !.bytes_received =
                     IF u.seg_num \notin tr.segments_received
                     THEN @ + (DgramLen(data) - PAYLOAD_HEADER_LEN)
                     ELSE @]

\* a slip: a transfer that learned no total reports 100
SuccessRateDefault100(tr) ==
    IF tr.total_segments # <<>> /\ tr.total_segments[1] # 0
    THEN [num |-> Cardinality(tr.segments_received) * 100,
          den |-> tr.total_segments[1]]
    ELSE [num |-> 100, den |-> 1]

\* success_rate = len(segments_received) / total_segments * 100 if total_segments else 0
SuccessRate(tr) ==
    IF tr.total_segments # <<>> /\ tr.total_segments[1] # 0
    THEN [num |-> Cardinality(tr.segments_received) * 100,
          den |-> tr.total_segments[1]]
    ELSE [num |-> 0, den |-> 1]

\* the socket is made, the Request packed and sent, the clocks read
udp_transfer_start(t) ==
    LET tr == udp_transfers[t] IN
    /\ tr.pc = "start"
    /\ udp_transfers' = [udp_transfers EXCEPT
            ![t].pc = "recv",
            ![t].request = <<[to |-> <<tr.server_ip, tr.server_port>>,
                              dg |-> Dgram(PackRequest(tr.file_size), 0)]>>]

\* socket() or sendto() raises: the error is printed, the socket closed
udp_transfer_start_fail(t) ==
    /\ udp_transfers[t].pc = "start"
    /\ udp_transfers' = [udp_transfers EXCEPT ![t].pc = "error"]

\* a slip: last_packet_time is set only once a datagram passed the checks
udp_transfer_recv_clock_on_valid(t) ==
    LET tr == udp_transfers[t] IN
    /\ tr.pc = "recv"
    /\ tr.idle < InactivityTicks
    /\ tr.recvs < MaxUdpClientRecv
    /\ \E data \in ClientDatagrams :
        udp_transfers' = [udp_transfers EXCEPT
            ![t] = [UdpAccount(tr, data) EXCEPT
                        !.idle = IF UdpAccount(tr, data) = tr THEN @ ELSE 0,
                        !.recvs = @ + 1, !.log = Append(@, data)]]

\* recvfrom returns a datagram before its timeout
udp_transfer_recv(t) ==
    LET tr == udp_transfers[t] IN
    /\ tr.pc = "recv"
    /\ tr.idle < InactivityTicks
    /\ tr.recvs < MaxUdpClientRecv
    /\ \E data \in ClientDatagrams :
        udp_transfers' = [udp_transfers EXCEPT
            ![t] = [UdpAccount(tr, data) EXCEPT
                        !.idle = 0, !.recvs = @ + 1, !.log = Append(@, data)]]

\* time passes while recvfrom blocks
udp_transfer_tick(t) ==
    LET tr == udp_transfers[t] IN
    /\ tr.pc = "recv"
    /\ tr.idle < InactivityTicks
    /\ udp_transfers' = [udp_transfers EXCEPT ![t].idle = @ + 1]

\* recvfrom raises socket.timeout; the next test of last_packet_time leaves the
\* loop and the figures are computed
udp_transfer_timeout(t) ==
    LET tr == udp_transfers[t] IN
    /\ tr.pc = "recv"
    /\ tr.idle = InactivityTicks
    /\ udp_transfers' = [udp_transfers EXCEPT
            ![t].pc = "done", ![t].success_rate = <<SuccessRate(tr)>>]

\* recvfrom raises another error: it is printed, the socket closed
udp_transfer_recv_fail(t) ==
    LET tr == udp_transfers[t] IN
    /\ tr.pc = "recv"
    /\ udp_transfers' = [udp_transfers EXCEPT ![t].pc = "error"]

UdpClientInit ==
    /\ tcp_conns = <<>> /\ tcp_handlers = <<>> /\ tcp_transfers = <<>>
    /\ broadcaster = BroadcasterOff /\ tcp_server = TcpServerOff
    /\ udp_server = UdpServerOff
    /\ udp_handlers = <<>>
    /\ client = ClientOff
    /\ threads = <<>>
    /\ \E file_size \in ConfigFileSizes :
         udp_transfers = <<NewUdpTransfer(ServerIp, 50001, file_size, 1)>>

UdpClientNext ==
    \/ \E t \in 1..Len(udp_transfers) :
            udp_transfer_start(t) /\ UNCHANGED notUdpClient
    \/ \E t \in 1..Len(udp_transfers) :
            udp_transfer_start_fail(t) /\ UNCHANGED notUdpClient
    \/ \E t \in 1..Len(udp_transfers) :
            udp_transfer_recv(t) /\ UNCHANGED notUdpClient
    \/ \E t \in 1..Len(udp_transfers) :
            udp_transfer_tick(t) /\ UNCHANGED notUdpClient
    \/ \E t \in 1..Len(udp_transfers) :
            udp_transfer_timeout(t) /\ UNCHANGED notUdpClient
    \/ \E t \in 1..Len(udp_transfers) :
            udp_transfer_recv_fail(t) /\ UNCHANGED notUdpClient

\* one client UDP transfer alone, fed any datagrams
SpecUdpClient == UdpClientInit /\ [][UdpClientNext]_vars

\* one client UDP transfer whose clock runs: while recvfrom blocks time
\* passes, and once the timeout is due it is raised
LiveUdpClient ==
    /\ SpecUdpClient
    /\ \A t \in {1} :
        /\ WF_vars(udp_transfer_tick(t) /\ UNCHANGED notUdpClient)
        /\ WF_vars(udp_transfer_timeout(t) /\ UNCHANGED notUdpClient)

(***************************************************************************)
(* Client, main thread: start, _wait_for_offer and _run_speed_test.        *)
(***************************************************************************)

\* What may arrive at port 13117: Offers as servers pack them (also with
\* bytes after the header), and datagrams that are no Offer.
OfferSenders == {<<"10.0.0.1", 6000>>, <<"10.0.0.9", 6001>>}
OfferDatagrams ==
    {Dgram(PackOffer(50001, 50002), 0),
     Dgram(PackOffer(513, 258), 0),
     Dgram(PackOffer(50001, 50002), 4)}
NonOfferDatagrams ==
    {Dgram(<<>>, 0),                                            \* empty
     Dgram(SubSeq(PackOffer(50001, 50002), 1, 8), 0),           \* too short
     Dgram(<<171, 205, 220, 187, 2, 195, 81, 195, 82>>, 0),     \* bad magic
     Dgram(PackRequest(1024), 0),                               \* a Request
     Dgram(MAGIC_COOKIE \o <<130, 195, 81, 195, 82>>, 0)}       \* type 0x82
DiscoveryDatagrams == OfferDatagrams \cup NonOfferDatagrams

\* threading.Thread(target=..., args=(server_ip, port, file_size, i + 1)), started
NewThread(target, server_ip, server_port, file_size, transfer_num) ==
    [target |-> target, server_ip |-> server_ip, server_port |-> server_port,
     file_size |-> file_size, transfer_num |-> transfer_num,
     state |-> "started", outcome |-> "none"]

\* the threads that were started and have not ended
Running == {k \in 1..Len(threads) : threads[k].state = "started"}

\* a slip: start has no loop around the discovery and the test
start_listen_once ==
    /\ client.pc = "idle"
    /\ client' = [client EXCEPT !.pc = "wait_for_offer",
                                !.server_ip = "", !.server_ports = <<>>,
                                !.i = 0, !.peak = 0]
    /\ threads' = <<>>

\* start: the loop calls _wait_for_offer, which sets the socket's timeout
start_listen ==
    /\ client.pc \in {"idle", "complete"}
    /\ client' = [client EXCEPT !.pc = "wait_for_offer",
                                !.server_ip = "", !.server_ports = <<>>,
                                !.tested = (client.pc = "complete") \/ @,
                                !.i = 0, !.peak = 0]
    /\ threads' = <<>>

\* the body of _wait_for_offer's loop after recvfrom returned data from addr:
\* the main thread after it
ClientAfterRecv(data, addr) ==
    LET valid == /\ DgramLen(data) >= OFFER_LEN
                 /\ UnpackOffer(data.hdr).magic = MAGIC_COOKIE
                 /\ UnpackOffer(data.hdr).msg_type = OFFER_MSG_TYPE
    IN  IF valid
        THEN [client EXCEPT
                !.pc = "got_offer",
                !.server_ip = addr[1],
                !.server_ports = <<UnpackOffer(data.hdr).udp_port,
                                   UnpackOffer(data.hdr).tcp_port>>,
                !.data = data, !.addr = addr,
                !.idle = 0, !.window = 0, !.recvs = @ + 1]
        ELSE [client EXCEPT
                !.data = data, !.addr = addr, !.discarded = TRUE,
                !.idle = 0, !.recvs = @ + 1]

\* _wait_for_offer: recvfrom returns data from addr; a valid Offer is returned
\* to start, anything else is dropped and the loop goes on
wait_for_offer_recv ==
    /\ client.pc = "wait_for_offer"
    /\ client.recvs < MaxOfferRecv
    /\ \E data \in DiscoveryDatagrams, addr \in OfferSenders :
        client' = ClientAfterRecv(data, addr)
    /\ UNCHANGED threads

\* _wait_for_offer: a second passes while recvfrom blocks
wait_for_offer_tick ==
    /\ client.pc = "wait_for_offer"
    /\ client.idle < OFFER_TIMEOUT
    /\ client.window < MaxWindow
    /\ client' = [client EXCEPT !.idle = @ + 1, !.window = @ + 1]
    /\ UNCHANGED threads

\* _wait_for_offer: recvfrom raises socket.timeout; the except clause inside the
\* loop prints it and the loop calls recvfrom again
wait_for_offer_timeout ==
    /\ client.pc = "wait_for_offer"
    /\ client.idle = OFFER_TIMEOUT
    /\ client' = [client EXCEPT !.timed_out = TRUE, !.idle = 0]
    /\ UNCHANGED threads

\* start: the offer is printed and _run_speed_test is called
run_speed_test_begin ==
    /\ client.pc = "got_offer"
    /\ client' = [client EXCEPT !.pc = "spawn_tcp", !.i = 0, !.recvs = 0,
                                !.data = Dgram(<<>>, 0), !.addr = <<"", 0>>,
                                !.discarded = FALSE, !.timed_out = FALSE]
    /\ threads' = <<>>

\* a slip: the TCP threads are given the first port of the offer
run_speed_test_spawn_tcp_first_port ==
    /\ client.pc = "spawn_tcp"
    /\ client.i < client.tcp_count
    /\ threads' = Append(threads,
            NewThread("_tcp_transfer", client.server_ip, client.server_ports[1],
                      client.file_size, client.i + 1))
    /\ client' = [client EXCEPT
            !.i = @ + 1,
            !.peak = IF Cardinality(Running) + 1 > @
                     THEN Cardinality(Running) + 1 ELSE @]

\* for i in range(tcp_count): a thread running _tcp_transfer is started
run_speed_test_spawn_tcp ==
    /\ client.pc = "spawn_tcp"
    /\ client.i < client.tcp_count
    /\ threads' = Append(threads,
            NewThread("_tcp_transfer", client.server_ip, client.server_ports[2],
                      client.file_size, client.i + 1))
    /\ client' = [client EXCEPT
            !.i = @ + 1,
            !.peak = IF Cardinality(Running) + 1 > @
                     THEN Cardinality(Running) + 1 ELSE @]

\* range(tcp_count) is exhausted
run_speed_test_tcp_spawned ==
    /\ client.pc = "spawn_tcp"
    /\ client.i = client.tcp_count
    /\ client' = [client EXCEPT !.pc = "spawn_udp", !.i = 0]
    /\ UNCHANGED threads

\* for i in range(udp_count): a thread running _udp_transfer is started
run_speed_test_spawn_udp ==
    /\ client.pc = "spawn_udp"
    /\ client.i < client.udp_count
    /\ threads' = Append(threads,
            NewThread("_udp_transfer", client.server_ip, client.server_ports[1],
                      client.file_size, client.i + 1))
    /\ client' = [client EXCEPT
            !.i = @ + 1,
            !.peak = IF Cardinality(Running) + 1 > @
                     THEN Cardinality(Running) + 1 ELSE @]

\* range(udp_count) is exhausted: the loop over threads begins
run_speed_test_udp_spawned ==
    /\ client.pc = "spawn_udp"
    /\ client.i = client.udp_count
    /\ client' = [client EXCEPT !.pc = "join", !.i = 1]
    /\ UNCHANGED threads

\* a slip: the loop over threads does not wait for the thread
run_speed_test_join_nowait ==
    /\ client.pc = "join"
    /\ client.i <= Len(threads)
    /\ client' = [client EXCEPT !.i = @ + 1]
    /\ UNCHANGED threads

\* for thread in threads: thread.join() returns once that thread has ended
run_speed_test_join ==
    /\ client.pc = "join"
    /\ client.i <= Len(threads)
    /\ threads[client.i].state = "finished"
    /\ client' = [client EXCEPT !.i = @ + 1]
    /\ UNCHANGED threads

\* the loop over threads is exhausted: _run_speed_test returns to start, which
\* prints that all transfers are complete
run_speed_test_return ==
    /\ client.pc = "join"
    /\ client.i > Len(threads)
    /\ client' = [client EXCEPT !.pc = "complete", !.i = 0]
    /\ UNCHANGED threads

\* a transfer thread runs to its end: its figures are printed ("ok"), or its
\* except clause prints the error ("error"); either way its socket is closed
thread_run(k) ==
    /\ threads[k].state = "started"
    /\ \E outcome \in {"ok", "error"} :
        threads' = [threads EXCEPT ![k].state = "finished",
                                   ![k].outcome = outcome]
    /\ UNCHANGED client

\* start after _get_user_input returned (file_size, tcp_count, udp_count)
ClientInit ==
    /\ tcp_conns = <<>> /\ tcp_handlers = <<>> /\ tcp_transfers = <<>>
    /\ broadcaster = BroadcasterOff /\ tcp_server = TcpServerOff
    /\ udp_server = UdpServerOff
    /\ udp_handlers = <<>>
    /\ udp_transfers = <<>>
    /\ threads = <<>>
    /\ \E file_size \in ConfigFileSizes, tcp_count, udp_count \in 0..MaxCount :
        /\ tcp_count + udp_count # 0
        /\ client = [ClientOff EXCEPT !.pc = "idle", !.file_size = file_size,
                         !.tcp_count = tcp_count, !.udp_count = udp_count]

ClientNext ==
    \/ start_listen /\ UNCHANGED notClient
    \/ wait_for_offer_recv /\ UNCHANGED notClient
    \/ wait_for_offer_tick /\ UNCHANGED notClient
    \/ wait_for_offer_timeout /\ UNCHANGED notClient
    \/ run_speed_test_begin /\ UNCHANGED notClient
    \/ run_speed_test_spawn_tcp /\ UNCHANGED notClient
    \/ run_speed_test_tcp_spawned /\ UNCHANGED notClient
    \/ run_speed_test_spawn_udp /\ UNCHANGED notClient
    \/ run_speed_test_udp_spawned /\ UNCHANGED notClient
    \/ run_speed_test_join /\ UNCHANGED notClient
    \/ run_speed_test_return /\ UNCHANGED notClient
    \/ \E k \in 1..Len(threads) : thread_run(k) /\ UNCHANGED notClient

\* the client's main thread, fed any datagrams, its transfers run to their end
SpecClient == ClientInit /\ [][ClientNext]_vars

\* start with one file size: the main thread only hands file_size on
CycleInit == ClientInit /\ client.file_size = 2049

\* the steps of the client's threads, the clock of _wait_for_offer left out
CycleNext ==
    \/ start_listen /\ UNCHANGED notClient
    \/ wait_for_offer_recv /\ UNCHANGED notClient
    \/ run_speed_test_begin /\ UNCHANGED notClient
    \/ run_speed_test_spawn_tcp /\ UNCHANGED notClient
    \/ run_speed_test_tcp_spawned /\ UNCHANGED notClient
    \/ run_speed_test_spawn_udp /\ UNCHANGED notClient
    \/ run_speed_test_udp_spawned /\ UNCHANGED notClient
    \/ run_speed_test_join /\ UNCHANGED notClient
    \/ run_speed_test_return /\ UNCHANGED notClient
    \/ \E k \in 1..Len(threads) : thread_run(k) /\ UNCHANGED notClient

\* the client's main thread and its transfer threads, all of which get to
\* run: a step of the main thread that can be taken is taken, and every
\* transfer thread comes to its end
LiveClient ==
    /\ CycleInit /\ [][CycleNext]_vars
    /\ WF_vars(start_listen /\ UNCHANGED notClient)
    /\ WF_vars(run_speed_test_begin /\ UNCHANGED notClient)
    /\ WF_vars(run_speed_test_spawn_tcp /\ UNCHANGED notClient)
    /\ WF_vars(run_speed_test_tcp_spawned /\ UNCHANGED notClient)
    /\ WF_vars(run_speed_test_spawn_udp /\ UNCHANGED notClient)
    /\ WF_vars(run_speed_test_udp_spawned /\ UNCHANGED notClient)
    /\ WF_vars(run_speed_test_join /\ UNCHANGED notClient)
    /\ WF_vars(run_speed_test_return /\ UNCHANGED notClient)
    /\ WF_vars(\E k \in 1..Len(threads) : thread_run(k) /\ UNCHANGED notClient)

(***************************************************************************)
(* TCP: _tcp_transfer on the client, _handle_tcp_client on the server.     *)
(*                                                                         *)
(* Connection c is tcp_conns[c]; its client thread is tcp_transfers[c] and *)
(* its handler thread tcp_handlers[c].  A request is a sequence of         *)
(* one-character strings; the bytes the server writes are pseudorandom and *)
(* only counted.                                                           *)
(***************************************************************************)
DigitChars == <<"0", "1", "2", "3", "4", "5", "6", "7", "8", "9">>
Whitespace == {"\n", " "}

RECURSIVE Decimal(_)
\* str(n) for n >= 0
Decimal(n) ==
    IF n < 10 THEN <<DigitChars[n + 1]>>
    ELSE Append(Decimal(n \div 10), DigitChars[(n % 10) + 1])

\* f"{file_size}\n".encode()
RequestLine(file_size) == Append(Decimal(file_size), "\n")

RECURSIVE Strip(_)
\* str.strip()
Strip(cs) ==
    IF cs = <<>> THEN cs
    ELSE IF cs[1] \in Whitespace THEN Strip(Tail(cs))
    ELSE IF cs[Len(cs)] \in Whitespace THEN Strip(SubSeq(cs, 1, Len(cs) - 1))
    ELSE cs

RECURSIVE DigitsValue(_)
\* the number a nonempty sequence of digits writes
DigitsValue(cs) ==
    LET d == CHOOSE k \in 0..9 : DigitChars[k + 1] = cs[Len(cs)] IN
    IF Len(cs) = 1 THEN d ELSE DigitsValue(SubSeq(cs, 1, Len(cs) - 1)) * 10 + d

IsDigits(cs) ==
    cs # <<>> /\ \A k \in 1..Len(cs) : \E d \in 1..10 : DigitChars[d] = cs[k]

\* int(data.decode().strip()): <<n>>, or <<>> where it raises ValueError
ParseInt(cs) ==
    LET st == Strip(cs) IN
    IF IsDigits(st) THEN <<DigitsValue(st)>>
    ELSE IF st # <<>> /\ st[1] = "-" /\ IsDigits(Tail(st))
    THEN <<0 - DigitsValue(Tail(st))>>
    ELSE IF st # <<>> /\ st[1] = "+" /\ IsDigits(Tail(st))
    THEN <<DigitsValue(Tail(st))>>
    ELSE <<>>

\* What a send of len bytes may return on a socket with a timeout: all of
\* them, or the part that fitted the send buffer.
PartialSends == {512}
SendResults(len) == {len} \cup {n \in PartialSends : n < len}

\* What recv(1024) may return when avail bytes are in flight: what has
\* arrived, up to 1024.
PartialRecvs == {512}
RecvResults(avail) ==
    {Min(RECV_BUFSIZE, avail)}
        \cup {n \in PartialRecvs : n < Min(RECV_BUFSIZE, avail)}

NoConn ==
    [state |-> "none",          \* "none", "pending" (connected), "accepted"
     to |-> <<"", 0>>,          \* the (ip, port) connect was called with
     c2s |-> <<>>,              \* sent by the client, not yet read by the server
     s2c |-> 0,                 \* bytes sent by the server, not yet read
     wrote |-> 0,               \* bytes the server's socket took in all
     writes |-> 0,              \* calls of send on the server
     max_write |-> 0,           \* the most bytes one of them was given
     server_closed |-> FALSE]

TcpHandlerOff ==
    [pc |-> "off", data |-> <<>>, file_size |-> 0, sent |-> 0, failed |-> FALSE]

\* the thread as threading.Thread(target=self._tcp_transfer, args=...) makes it
NewTcpTransfer(server_ip, server_port, file_size, transfer_num) ==
    [pc |-> "start",
     server_ip |-> server_ip, server_port |-> server_port,
     file_size |-> file_size, transfer_num |-> transfer_num,
     bytes_received |-> 0,
     speed_bytes |-> <<>>,      \* <<n>> once speed = (n * 8) / duration is computed
     failed |-> FALSE]

\* _handle_tcp_connections: accept returns connection c and its handler starts
handle_tcp_connections_accept(c) ==
    /\ tcp_server.pc = "accept"
    /\ tcp_conns[c].state = "pending"
    /\ tcp_conns' = [tcp_conns EXCEPT ![c].state = "accepted"]
    /\ tcp_handlers' = [tcp_handlers EXCEPT ![c].pc = "recv"]
    /\ tcp_server' = [tcp_server EXCEPT !.last = "accepted"]
    /\ UNCHANGED tcp_transfers

\* the handler after client.recv(1024) returned data: parsed, or ended
TcpHandlerAfterRecv(hd, data) ==
    LET parsed == ParseInt(data) IN
    IF parsed = <<>> \/ parsed[1] <= 0
    THEN [hd EXCEPT !.pc = "closed", !.data = data, !.failed = TRUE]
    ELSE [hd EXCEPT !.pc = "send", !.data = data, !.file_size = parsed[1],
                    !.sent = 0]

\* _handle_tcp_client: recv(1024) returns the first n bytes in flight; they
\* are parsed, and a bad size ends the handler, which closes the connection
handle_tcp_client_recv(c) ==
    /\ tcp_handlers[c].pc = "recv"
    /\ \E n \in 1..Min(RECV_BUFSIZE, Len(tcp_conns[c].c2s)) :
        LET next == TcpHandlerAfterRecv(tcp_handlers[c],
                                        SubSeq(tcp_conns[c].c2s, 1, n))
        IN  /\ tcp_handlers' = [tcp_handlers EXCEPT ![c] = next]
            /\ tcp_conns' = [tcp_conns EXCEPT
                    ![c].c2s = SubSeq(@, n + 1, Len(@)),
                    ![c].server_closed = (next.pc = "closed")]
    /\ UNCHANGED <<tcp_server, tcp_transfers>>

\* _handle_tcp_client: recv returns b"" (the peer has closed) or raises after
\* 5 seconds without data; the handler ends and closes the connection
handle_tcp_client_recv_fail(c) ==
    /\ tcp_handlers[c].pc = "recv"
    /\ tcp_conns[c].c2s = <<>>
    /\ tcp_handlers' = [tcp_handlers EXCEPT ![c].pc = "closed", ![c].failed = TRUE]
    /\ tcp_conns' = [tcp_conns EXCEPT ![c].server_closed = TRUE]
    /\ UNCHANGED <<tcp_server, tcp_transfers>>

\* chunk = min(chunk_size, remaining)
TcpChunk(hd) == Min(chunk_size, hd.file_size - hd.sent)

\* _handle_tcp_client: one iteration of the while loop; send takes n of the
\* chunk's bytes and returns n, which the loop does not read
handle_tcp_client_send(c) ==
    LET hd == tcp_handlers[c]
        chunk == TcpChunk(hd)
    IN  /\ hd.pc = "send"
        /\ hd.sent < hd.file_size
        /\ \E n \in SendResults(chunk) :
            tcp_conns' = [tcp_conns EXCEPT
                ![c].s2c = @ + n, ![c].wrote = @ + n, ![c].writes = @ + 1,
                ![c].max_write = IF chunk > @ THEN chunk ELSE @]
        /\ tcp_handlers' = [tcp_handlers EXCEPT ![c].sent = @ + chunk]
        /\ UNCHANGED <<tcp_server, tcp_transfers>>

\* _handle_tcp_client: send raises (the peer is gone, or 5 seconds without
\* room); the handler prints the error and closes the connection
handle_tcp_client_send_fail(c) ==
    /\ tcp_handlers[c].pc = "send"
    /\ tcp_handlers[c].sent < tcp_handlers[c].file_size
    /\ tcp_handlers' = [tcp_handlers EXCEPT ![c].pc = "closed", ![c].failed = TRUE]
    /\ tcp_conns' = [tcp_conns EXCEPT ![c].server_closed = TRUE]
    /\ UNCHANGED <<tcp_server, tcp_transfers>>

\* _handle_tcp_client: sent has reached file_size; finally: client.close()
handle_tcp_client_close(c) ==
    /\ tcp_handlers[c].pc = "send"
    /\ tcp_handlers[c].sent >= tcp_handlers[c].file_size
    /\ tcp_handlers' = [tcp_handlers EXCEPT ![c].pc = "closed"]
    /\ tcp_conns' = [tcp_conns EXCEPT ![c].server_closed = TRUE]
    /\ UNCHANGED <<tcp_server, tcp_transfers>>

\* What a peer of the server may have written on a new connection: request
\* lines as _tcp_transfer writes them, and lines that are no positive size.
RawRequests ==
    {RequestLine(fs) : fs \in ConfigFileSizes}
        \cup {RequestLine(0), <<"-", "5", "\n">>, <<"a", "b", "\n">>,
              <<"1", "a", "\n">>, <<"\n">>, <<>>}

\* one connection that was made to the server, some request in flight on it
TcpServerInit ==
    /\ udp_server = UdpServerOff
    /\ udp_handlers = <<>>
    /\ udp_transfers = <<>>
    /\ client = ClientOff
    /\ threads = <<>>
    /\ tcp_transfers = <<>>
    /\ tcp_handlers = <<TcpHandlerOff>>
    /\ broadcaster = BroadcasterOff
    /\ tcp_server = [TcpServerOff EXCEPT !.pc = "accept"]
    /\ \E req \in RawRequests :
        tcp_conns = <<[NoConn EXCEPT !.state = "pending", !.c2s = req]>>

TcpServerNext ==
    \/ \E c \in 1..Len(tcp_conns) :
            handle_tcp_connections_accept(c) /\ UNCHANGED notTcp
    \/ \E c \in 1..Len(tcp_conns) : handle_tcp_client_recv(c) /\ UNCHANGED notTcp
    \/ \E c \in 1..Len(tcp_conns) :
            handle_tcp_client_recv_fail(c) /\ UNCHANGED notTcp
    \/ \E c \in 1..Len(tcp_conns) : handle_tcp_client_send(c) /\ UNCHANGED notTcp
    \/ \E c \in 1..Len(tcp_conns) :
            handle_tcp_client_send_fail(c) /\ UNCHANGED notTcp
    \/ \E c \in 1..Len(tcp_conns) : handle_tcp_client_close(c) /\ UNCHANGED notTcp

\* the server's TCP side alone, its peer having written any request
SpecTcpServer == TcpServerInit /\ [][TcpServerNext]_vars

\* _tcp_transfer: the socket is made and connect succeeds
tcp_transfer_connect(c) ==
    /\ tcp_transfers[c].pc = "start"
    /\ tcp_conns[c].state = "none"
    /\ tcp_transfers' = [tcp_transfers EXCEPT ![c].pc = "send_request"]
    /\ tcp_conns' = [tcp_conns EXCEPT
            ![c].state = "pending",
            ![c].to = <<tcp_transfers[c].server_ip, tcp_transfers[c].server_port>>]
    /\ UNCHANGED <<tcp_server, tcp_handlers>>

\* _tcp_transfer: connect times out, is refused or the address is invalid; the
\* ConnectionError is printed and the socket closed
tcp_transfer_connect_fail(c) ==
    /\ tcp_transfers[c].pc = "start"
    /\ tcp_transfers' = [tcp_transfers EXCEPT ![c].pc = "error", ![c].failed = TRUE]
    /\ UNCHANGED <<tcp_server, tcp_conns, tcp_handlers>>

\* _tcp_transfer: sock.send(f"{file_size}\n".encode()), start_time is read
tcp_transfer_send_request(c) ==
    LET line == RequestLine(tcp_transfers[c].file_size) IN
    /\ tcp_transfers[c].pc = "send_request"
    /\ \E n \in SendResults(Len(line)) :
        tcp_conns' = [tcp_conns EXCEPT ![c].c2s = @ \o SubSeq(line, 1, n)]
    /\ tcp_transfers' = [tcp_transfers EXCEPT ![c].pc = "recv"]
    /\ UNCHANGED <<tcp_server, tcp_handlers>>

\* bytes_received += len(chunk)
TcpTransferAfterChunk(tr, n) == [tr EXCEPT !.bytes_received = @ + n]

\* _tcp_transfer: one iteration of the while loop; recv(1024) returns n bytes
tcp_transfer_recv(c) ==
    /\ tcp_transfers[c].pc = "recv"
    /\ tcp_transfers[c].bytes_received < tcp_transfers[c].file_size
    /\ tcp_conns[c].s2c > 0
    /\ \E n \in RecvResults(tcp_conns[c].s2c) :
        /\ tcp_transfers' = [tcp_transfers EXCEPT
                ![c] = TcpTransferAfterChunk(tcp_transfers[c], n)]
        /\ tcp_conns' = [tcp_conns EXCEPT ![c].s2c = @ - n]
    /\ UNCHANGED <<tcp_server, tcp_handlers>>

\* _tcp_transfer: recv returns b"" because the server has closed: break; the
\* duration and speed = (file_size * 8) / duration are computed and printed
tcp_transfer_recv_eof(c) ==
    /\ tcp_transfers[c].pc = "recv"
    /\ tcp_transfers[c].bytes_received < tcp_transfers[c].file_size
    /\ tcp_conns[c].s2c = 0
    /\ tcp_conns[c].server_closed
    /\ tcp_transfers' = [tcp_transfers EXCEPT
            ![c].pc = "done", ![c].speed_bytes = <<tcp_transfers[c].file_size>>]
    /\ UNCHANGED <<tcp_server, tcp_conns, tcp_handlers>>

\* _tcp_transfer: bytes_received has reached file_size: the loop ends; the
\* duration and speed = (file_size * 8) / duration are computed and printed
tcp_transfer_finish(c) ==
    /\ tcp_transfers[c].pc = "recv"
    /\ tcp_transfers[c].bytes_received >= tcp_transfers[c].file_size
    /\ tcp_transfers' = [tcp_transfers EXCEPT
            ![c].pc = "done", ![c].speed_bytes = <<tcp_transfers[c].file_size>>]
    /\ UNCHANGED <<tcp_server, tcp_conns, tcp_handlers>>

\* _tcp_transfer: recv raises: the server closed the connection with part of
\* the request unread, which resets it; the error is printed
tcp_transfer_recv_reset(c) ==
    /\ tcp_transfers[c].pc = "recv"
    /\ tcp_transfers[c].bytes_received < tcp_transfers[c].file_size
    /\ tcp_conns[c].server_closed
    /\ tcp_conns[c].c2s # <<>>
    /\ tcp_transfers' = [tcp_transfers EXCEPT ![c].pc = "error", ![c].failed = TRUE]
    /\ UNCHANGED <<tcp_server, tcp_conns, tcp_handlers>>

\* _tcp_transfer: recv raises socket.timeout after 10 seconds without a byte;
\* the error is printed and the socket closed
tcp_transfer_recv_timeout(c) ==
    /\ tcp_transfers[c].pc = "recv"
    /\ tcp_transfers[c].bytes_received < tcp_transfers[c].file_size
    /\ tcp_conns[c].s2c = 0
    /\ ~tcp_conns[c].server_closed
    /\ tcp_transfers' = [tcp_transfers EXCEPT ![c].pc = "error", ![c].failed = TRUE]
    /\ UNCHANGED <<tcp_server, tcp_conns, tcp_handlers>>

\* one _tcp_transfer thread, nothing connected yet, the accept loop running
TcpTransferInit ==
    /\ udp_server = UdpServerOff
    /\ udp_handlers = <<>>
    /\ udp_transfers = <<>>
    /\ client = ClientOff
    /\ threads = <<>>
    /\ broadcaster = BroadcasterOff
    /\ tcp_server = [TcpServerOff EXCEPT !.pc = "accept"]
    /\ tcp_conns = <<NoConn>>
    /\ tcp_handlers = <<TcpHandlerOff>>
    /\ \E file_size \in ConfigFileSizes :
        tcp_transfers = <<NewTcpTransfer(ServerIp, 50002, file_size, 1)>>

TcpTransferNext ==
    \/ tcp_transfer_connect(1) /\ UNCHANGED notTcp
    \/ tcp_transfer_connect_fail(1) /\ UNCHANGED notTcp
    \/ tcp_transfer_send_request(1) /\ UNCHANGED notTcp
    \/ tcp_transfer_recv(1) /\ UNCHANGED notTcp
    \/ tcp_transfer_recv_eof(1) /\ UNCHANGED notTcp
    \/ tcp_transfer_finish(1) /\ UNCHANGED notTcp
    \/ tcp_transfer_recv_reset(1) /\ UNCHANGED notTcp
    \/ tcp_transfer_recv_timeout(1) /\ UNCHANGED notTcp
    \/ handle_tcp_connections_accept(1) /\ UNCHANGED notTcp
    \/ handle_tcp_client_recv(1) /\ UNCHANGED notTcp
    \/ handle_tcp_client_recv_fail(1) /\ UNCHANGED notTcp
    \/ handle_tcp_client_send(1) /\ UNCHANGED notTcp
    \/ handle_tcp_client_send_fail(1) /\ UNCHANGED notTcp
    \/ handle_tcp_client_close(1) /\ UNCHANGED notTcp

\* one TCP transfer and its handler on the server, every call raising or not
SpecTcpTransfer == TcpTransferInit /\ [][TcpTransferNext]_vars

(***************************************************************************)
(* End to end: one TCP and one UDP transfer against the server, on a       *)
(* network that loses, repeats and corrupts nothing and is never late: no  *)
(* call times out while data is on its way and no call raises but for a    *)
(* connection the server has reset.  Datagrams may overtake each other.    *)
(***************************************************************************)

\* the address the socket of UDP transfer t sends from
ClientAddr(t) == <<"10.0.0.7", 40000 + t>>

\* _handle_udp_requests: recvfrom returns the Request of UDP transfer t
handle_udp_requests_recv_from(t) ==
    LET req == udp_transfers[t].request IN
    /\ udp_server.pc = "recv"
    /\ req # <<>>
    /\ ~udp_transfers[t].request_delivered
    /\ udp_handlers' = UdpDispatch(req[1].dg, ClientAddr(t))
    /\ udp_server' = [udp_server EXCEPT !.recvs = @ + 1, !.data = req[1].dg,
                                        !.last = "data"]
    /\ udp_transfers' = [udp_transfers EXCEPT ![t].request_delivered = TRUE]

\* _udp_transfer: recvfrom returns the k-th packet handler h sent to this socket
udp_transfer_recv_from(t, h, k) ==
    LET tr == udp_transfers[t] IN
    /\ tr.pc = "recv"
    /\ tr.idle < InactivityTicks
    /\ udp_handlers[h].addr = ClientAddr(t)
    /\ k \in 1..Len(udp_handlers[h].out)
    /\ <<h, k>> \notin tr.taken
    /\ udp_transfers' = [udp_transfers EXCEPT
            ![t] = [UdpAccount(tr, udp_handlers[h].out[k]) EXCEPT
                        !.idle = 0, !.recvs = @ + 1,
                        !.log = Append(@, udp_handlers[h].out[k]),
                        !.taken = @ \cup {<<h, k>>}]]

\* nothing is on its way to UDP transfer t and nothing more will be sent to it
Quiet(t) ==
    /\ udp_transfers[t].request_delivered
    /\ \A h \in 1..Len(udp_handlers) :
        udp_handlers[h].addr = ClientAddr(t) =>
            /\ udp_handlers[h].pc = "done"
            /\ \A k \in 1..Len(udp_handlers[h].out) :
                    <<h, k>> \in udp_transfers[t].taken

EndToEndInit ==
    /\ client = ClientOff
    /\ threads = <<>>
    /\ udp_server = [UdpServerOff EXCEPT !.pc = "recv"]
    /\ udp_handlers = <<>>
    /\ broadcaster = BroadcasterOff
    /\ tcp_server = [TcpServerOff EXCEPT !.pc = "accept"]
    /\ tcp_conns = <<NoConn>>
    /\ tcp_handlers = <<TcpHandlerOff>>
    /\ \E file_size \in ConfigFileSizes :
        /\ tcp_transfers = <<NewTcpTransfer(ServerIp, 50002, file_size, 1)>>
        /\ udp_transfers = <<NewUdpTransfer(ServerIp, 50001, file_size, 1)>>

EndToEndNext ==
    \/ tcp_transfer_connect(1) /\ UNCHANGED notTcp
    \/ tcp_transfer_send_request(1) /\ UNCHANGED notTcp
    \/ tcp_transfer_recv(1) /\ UNCHANGED notTcp
    \/ tcp_transfer_recv_eof(1) /\ UNCHANGED notTcp
    \/ tcp_transfer_finish(1) /\ UNCHANGED notTcp
    \/ tcp_transfer_recv_reset(1) /\ UNCHANGED notTcp
    \/ handle_tcp_connections_accept(1) /\ UNCHANGED notTcp
    \/ handle_tcp_client_recv(1) /\ UNCHANGED notTcp
    \/ handle_tcp_client_send(1) /\ UNCHANGED notTcp
    \/ handle_tcp_client_close(1) /\ UNCHANGED notTcp
    \/ udp_transfer_start(1) /\ UNCHANGED notUdpClient
    \/ handle_udp_requests_recv_from(1)
            /\ UNCHANGED <<clientVars, tcpVars, broadcaster>>
    \/ \E h \in 1..Len(udp_handlers) :
            handle_udp_client_begin(h) /\ UNCHANGED notUdpServer
    \/ \E h \in 1..Len(udp_handlers) :
            handle_udp_client_send(h) /\ UNCHANGED notUdpServer
    \/ \E h \in 1..Len(udp_handlers) :
            handle_udp_client_end(h) /\ UNCHANGED notUdpServer
    \/ \E h \in 1..Len(udp_handlers) : \E k \in 1..Len(udp_handlers[h].out) :
            udp_transfer_recv_from(1, h, k) /\ UNCHANGED notUdpClient
    \/ Quiet(1) /\ udp_transfer_tick(1) /\ UNCHANGED notUdpClient
    \/ udp_transfer_timeout(1) /\ UNCHANGED notUdpClient

\* one TCP and one UDP transfer of the same size, end to end
SpecEndToEnd == EndToEndInit /\ [][EndToEndNext]_vars

(***************************************************************************)
(* Two UDP transfers at a time against the server's UDP side.  Each is     *)
(* _udp_transfer called with a size a Request can carry, 0 among them; the *)
(* network hands a datagram to the socket it is addressed to, in any order *)
(* and after any delay, or never.                                          *)
(***************************************************************************)
UdpPairInit ==
    /\ client = ClientOff
    /\ threads = <<>>
    /\ tcp_conns = <<>> /\ tcp_handlers = <<>> /\ tcp_transfers = <<>>
    /\ broadcaster = BroadcasterOff /\ tcp_server = TcpServerOff
    /\ udp_server = [UdpServerOff EXCEPT !.pc = "recv"]
    /\ udp_handlers = <<>>
    /\ \E size1, size2 \in FileSizes :
        udp_transfers = <<NewUdpTransfer(ServerIp, 50001, size1, 1),
                          NewUdpTransfer(ServerIp, 50001, size2, 2)>>

UdpPairNext ==
    \/ \E t \in 1..Len(udp_transfers) :
            udp_transfer_start(t) /\ UNCHANGED notUdpClient
    \/ \E t \in 1..Len(udp_transfers) :
            handle_udp_requests_recv_from(t)
                /\ UNCHANGED <<clientVars, tcpVars, broadcaster>>
    \/ \E h \in 1..Len(udp_handlers) :
            handle_udp_client_begin(h) /\ UNCHANGED notUdpServer
    \/ \E h \in 1..Len(udp_handlers) :
            handle_udp_client_send(h) /\ UNCHANGED notUdpServer
    \/ \E h \in 1..Len(udp_handlers) :
            handle_udp_client_end(h) /\ UNCHANGED notUdpServer
    \/ \E t \in 1..Len(udp_transfers) : \E h \in 1..Len(udp_handlers) :
        \E k \in 1..Len(udp_handlers[h].out) :
            udp_transfer_recv_from(t, h, k) /\ UNCHANGED notUdpClient
    \/ \E t \in 1..Len(udp_transfers) :
            udp_transfer_tick(t) /\ UNCHANGED notUdpClient
    \/ \E t \in 1..Len(udp_transfers) :
            udp_transfer_timeout(t) /\ UNCHANGED notUdpClient

\* two UDP transfers and the server's UDP side, end to end
SpecUdpPair == UdpPairInit /\ [][UdpPairNext]_vars

(***************************************************************************)
(* The server's three loops, _broadcast_offers, _handle_tcp_connections    *)
(* and _handle_udp_requests, and the handler threads they start, with      *)
(* every call that can raise raising or not.  The peers are one TCP and    *)
(* one UDP transfer of a client, as far as their requests.                 *)
(***************************************************************************)

\* _broadcast_offers: one round of the loop; the offer is packed and sent,
\* then the thread sleeps a second
broadcast_offers_send ==
    /\ broadcaster.pc = "loop"
    /\ broadcaster.rounds < MaxBroadcast
    /\ broadcaster' = [broadcaster EXCEPT
            !.rounds = @ + 1, !.last = "sent",
            !.offer_message =
                Dgram(PackOffer(broadcaster.udp_port, broadcaster.tcp_port), 0)]

\* _broadcast_offers: one round of the loop; sendto raises, the except clause
\* inside the loop prints the error and sleeps a second
broadcast_offers_fail ==
    /\ broadcaster.pc = "loop"
    /\ broadcaster.rounds < MaxBroadcast
    /\ broadcaster' = [broadcaster EXCEPT
            !.rounds = @ + 1, !.last = "error", !.errors = @ + 1]

(***************************************************************************)
(* From the server's offer to the client's transfers: the broadcaster, the *)
(* client's main thread from _wait_for_offer on, and each transfer thread  *)
(* as far as its connect or its Request.                                   *)
(***************************************************************************)

\* _wait_for_offer: recvfrom returns the offer the server last broadcast
wait_for_offer_recv_broadcast ==
    /\ client.pc = "wait_for_offer"
    /\ broadcaster.last = "sent"
    /\ client' = ClientAfterRecv(broadcaster.offer_message, <<ServerIp, 6000>>)
    /\ UNCHANGED threads

\* a started thread begins to run _tcp_transfer with the arguments it was
\* made with; the thread of transfer number n keeps its locals at place n
tcp_transfer_thread_begin(k) ==
    /\ threads[k].state = "started"
    /\ threads[k].target = "_tcp_transfer"
    /\ tcp_transfers[threads[k].transfer_num].pc = "off"
    /\ tcp_transfers' = [tcp_transfers EXCEPT ![threads[k].transfer_num] =
            NewTcpTransfer(threads[k].server_ip, threads[k].server_port,
                           threads[k].file_size, threads[k].transfer_num)]
    /\ UNCHANGED <<client, threads, tcp_server, tcp_conns, tcp_handlers,
                   udp_transfers>>

\* a started thread begins to run _udp_transfer with the arguments it was
\* made with; the thread of transfer number n keeps its locals at place n
udp_transfer_thread_begin(k) ==
    /\ threads[k].state = "started"
    /\ threads[k].target = "_udp_transfer"
    /\ udp_transfers[threads[k].transfer_num].pc = "off"
    /\ udp_transfers' = [udp_transfers EXCEPT ![threads[k].transfer_num] =
            NewUdpTransfer(threads[k].server_ip, threads[k].server_port,
                           threads[k].file_size, threads[k].transfer_num)]
    /\ UNCHANGED <<client, threads, tcpVars>>

\* the locals of the thread with transfer number k
TransferOf(k) ==
    IF threads[k].target = "_tcp_transfer"
    THEN tcp_transfers[threads[k].transfer_num]
    ELSE udp_transfers[threads[k].transfer_num]

\* the (udp_port, tcp_port) a server may have been given by bind(('', 0))
ServerPorts == {<<50001, 50002>>, <<513, 258>>}

\* a server broadcasting and a client that listens for its offer
LaunchInit ==
    /\ udp_server = UdpServerOff
    /\ udp_handlers = <<>>
    /\ threads = <<>>
    /\ tcp_server = TcpServerOff
    /\ udp_transfers = [n \in 1..MaxLaunch |->
                            [NewUdpTransfer("", 0, 0, n) EXCEPT !.pc = "off"]]
    /\ tcp_transfers = [n \in 1..MaxLaunch |->
                            [NewTcpTransfer("", 0, 0, n) EXCEPT !.pc = "off"]]
    /\ tcp_conns = [n \in 1..MaxLaunch |-> NoConn]
    /\ tcp_handlers = [n \in 1..MaxLaunch |-> TcpHandlerOff]
    /\ \E ports \in ServerPorts :
        broadcaster = [BroadcasterOff EXCEPT !.pc = "loop",
                            !.udp_port = ports[1], !.tcp_port = ports[2]]
    /\ \E file_size \in ConfigFileSizes, tcp_count, udp_count \in 0..MaxLaunch :
        /\ tcp_count + udp_count # 0
        /\ client = [ClientOff EXCEPT !.pc = "wait_for_offer",
                         !.file_size = file_size,
                         !.tcp_count = tcp_count, !.udp_count = udp_count]

LaunchNext ==
    \/ broadcast_offers_send /\ UNCHANGED notBroadcaster
    \/ wait_for_offer_recv_broadcast /\ UNCHANGED notClient
    \/ run_speed_test_begin /\ UNCHANGED notClient
    \/ run_speed_test_spawn_tcp /\ UNCHANGED notClient
    \/ run_speed_test_tcp_spawned /\ UNCHANGED notClient
    \/ run_speed_test_spawn_udp /\ UNCHANGED notClient
    \/ run_speed_test_udp_spawned /\ UNCHANGED notClient
    \/ run_speed_test_join /\ UNCHANGED notClient
    \/ run_speed_test_return /\ UNCHANGED notClient
    \/ \E k \in 1..Len(threads) :
            tcp_transfer_thread_begin(k) /\ UNCHANGED <<udpVars, broadcaster>>
    \/ \E k \in 1..Len(threads) :
            udp_transfer_thread_begin(k) /\ UNCHANGED <<udpVars, broadcaster>>
    \/ \E c \in 1..Len(tcp_transfers) :
            tcp_transfer_connect(c) /\ UNCHANGED notTcp
    \/ \E c \in 1..Len(tcp_transfers) :
            tcp_transfer_connect_fail(c) /\ UNCHANGED notTcp
    \/ \E t \in 1..Len(udp_transfers) :
            udp_transfer_start(t) /\ UNCHANGED notUdpClient
    \/ \E t \in 1..Len(udp_transfers) :
            udp_transfer_start_fail(t) /\ UNCHANGED notUdpClient
    \/ \E k \in 1..Len(threads) :
            /\ TransferOf(k).pc \notin {"off", "start"}
            /\ thread_run(k) /\ UNCHANGED notClient

\* discovery and the launch of the transfers, end to end
SpecLaunch == LaunchInit /\ [][LaunchNext]_vars

\* a slip: the except clause is around the loop, not inside it
handle_tcp_connections_fail_stops ==
    /\ tcp_server.pc = "accept"
    /\ tcp_server.errors < MaxAcceptErrors
    /\ tcp_server' = [tcp_server EXCEPT !.pc = "stopped", !.last = "error",
                                        !.errors = @ + 1]
    /\ UNCHANGED <<tcp_conns, tcp_handlers, tcp_transfers>>

\* _handle_tcp_connections: accept, or the start of the handler thread,
\* raises; the except clause inside the loop prints the error
handle_tcp_connections_fail ==
    /\ tcp_server.pc = "accept"
    /\ tcp_server.errors < MaxAcceptErrors
    /\ tcp_server' = [tcp_server EXCEPT !.last = "error", !.errors = @ + 1]
    /\ UNCHANGED <<tcp_conns, tcp_handlers, tcp_transfers>>

ServerInit ==
    /\ client = ClientOff
    /\ threads = <<>>
    /\ broadcaster = [BroadcasterOff EXCEPT !.pc = "loop", !.udp_port = 50001,
                                            !.tcp_port = 50002]
    /\ tcp_server = [TcpServerOff EXCEPT !.pc = "accept"]
    /\ udp_server = [UdpServerOff EXCEPT !.pc = "recv"]
    /\ udp_handlers = <<>>
    /\ tcp_conns = <<NoConn>>
    /\ tcp_handlers = <<TcpHandlerOff>>
    /\ \E file_size \in ConfigFileSizes :
        /\ tcp_transfers = <<NewTcpTransfer(ServerIp, 50002, file_size, 1)>>
        /\ udp_transfers = <<NewUdpTransfer(ServerIp, 50001, file_size, 1)>>

ServerNext ==
    \/ broadcast_offers_send /\ UNCHANGED notBroadcaster
    \/ broadcast_offers_fail /\ UNCHANGED notBroadcaster
    \/ handle_tcp_connections_fail /\ UNCHANGED notTcp
    \/ tcp_transfer_connect(1) /\ UNCHANGED notTcp
    \/ tcp_transfer_send_request(1) /\ UNCHANGED notTcp
    \/ handle_tcp_connections_accept(1) /\ UNCHANGED notTcp
    \/ handle_tcp_client_recv(1) /\ UNCHANGED notTcp
    \/ handle_tcp_client_recv_fail(1) /\ UNCHANGED notTcp
    \/ handle_tcp_client_send(1) /\ UNCHANGED notTcp
    \/ handle_tcp_client_send_fail(1) /\ UNCHANGED notTcp
    \/ handle_tcp_client_close(1) /\ UNCHANGED notTcp
    \/ udp_transfer_start(1) /\ UNCHANGED notUdpClient
    \/ handle_udp_requests_recv_from(1)
            /\ UNCHANGED <<clientVars, tcpVars, broadcaster>>
    \/ handle_udp_requests_error /\ UNCHANGED notUdpServer
    \/ \E h \in 1..Len(udp_handlers) :
            handle_udp_client_begin(h) /\ UNCHANGED notUdpServer
    \/ \E h \in 1..Len(udp_handlers) :
            handle_udp_client_send(h) /\ UNCHANGED notUdpServer
    \/ \E h \in 1..Len(udp_handlers) :
            handle_udp_client_fail(h) /\ UNCHANGED notUdpServer
    \/ \E h \in 1..Len(udp_handlers) :
            handle_udp_client_end(h) /\ UNCHANGED notUdpServer

\* the whole server, one TCP and one UDP peer
SpecServer == ServerInit /\ [][ServerNext]_vars

(***************************************************************************)
(* Claims about the server's UDP handler.                                  *)
(***************************************************************************)
RECURSIVE SumPlen(_)
SumPlen(ds) == IF ds = <<>> THEN 0 ELSE ds[1].plen + SumPlen(Tail(ds))

\* the datagrams handler h has sent, in send order
SentBy(h) == udp_handlers[h].out

\* the least q with q * d >= n
CeilDiv(n, d) == CHOOSE q \in 0..n : q * d >= n /\ (q > 0 => (q - 1) * d < n)

\* C2: a UDP handler that has run to its end has sent ceil(file_size / 1024)
\* Payload datagrams whose payload lengths sum to file_size; at every point no
\* payload is longer than 1024 bytes and only the segment in the last place,
\* ceil(file_size / 1024), may be shorter.
C2_UdpSegmentation ==
    \A h \in 1..Len(udp_handlers) :
        LET hd == udp_handlers[h]
            sent == SentBy(h)
            n == CeilDiv(hd.file_size, 1024)
        IN  /\ Len(sent) <= n
            /\ \A k \in 1..Len(sent) :
                    /\ sent[k].plen <= 1024
                    /\ k < n => sent[k].plen = 1024
                    /\ Len(sent[k].hdr) = PAYLOAD_HEADER_LEN
            /\ hd.pc = "done" => Len(sent) = n /\ SumPlen(sent) = hd.file_size

\* a handler for 2049 bytes has ended after three segments, the last of one
\* byte, and a handler for 0 bytes has ended after none
C2_Witness ==
    /\ \E h \in 1..Len(udp_handlers) :
            /\ udp_handlers[h].pc = "done"
            /\ udp_handlers[h].file_size = 2049
            /\ Len(SentBy(h)) = 3
            /\ SentBy(h)[3].plen = 1
    /\ \E h \in 1..Len(udp_handlers) :
            /\ udp_handlers[h].pc = "done"
            /\ udp_handlers[h].file_size = 0
            /\ SentBy(h) = <<>>

(***************************************************************************)
(* Claims about the client's UDP transfer.                                 *)
(***************************************************************************)

\* a Payload datagram, by the wire format: at least 21 bytes, the magic
\* cookie 0xABCDDCBA and the type byte 0x04
IsPayload(d) ==
    /\ DgramLen(d) >= 21
    /\ SubSeq(d.hdr, 1, 5) = <<171, 205, 220, 186, 4>>

\* the segmentNumber field of a Payload datagram: bytes 14 to 21
SegmentNumberOf(d) ==
    LET b == d.hdr IN
    ((((((b[14] * 256 + b[15]) * 256 + b[16]) * 256 + b[17]) * 256 + b[18])
        * 256 + b[19]) * 256 + b[20]) * 256 + b[21]

\* the i-th datagram received is a Payload whose segmentNumber no earlier
\* Payload of the transfer carried
IsFirstArrival(log, i) ==
    /\ IsPayload(log[i])
    /\ \A j \in 1..(i - 1) :
            IsPayload(log[j]) => SegmentNumberOf(log[j]) # SegmentNumberOf(log[i])

RECURSIVE FirstArrivalBytes(_, _)
\* the payload bytes of the first arrivals among the first i datagrams
FirstArrivalBytes(log, i) ==
    IF i = 0 THEN 0
    ELSE FirstArrivalBytes(log, i - 1)
            + (IF IsFirstArrival(log, i) THEN DgramLen(log[i]) - 21 ELSE 0)

\* C4: at every point of a client UDP transfer, bytes_received is the sum of
\* the payload lengths of the first arrival of each distinct segmentNumber: a
\* Payload whose segmentNumber was received before adds nothing.
C4_DuplicateAddsNothing ==
    \A t \in 1..Len(udp_transfers) :
        udp_transfers[t].bytes_received
            = FirstArrivalBytes(udp_transfers[t].log, Len(udp_transfers[t].log))

\* a transfer has received one segmentNumber twice, with payloads of
\* different lengths, and a datagram of another segment in between
C4_Witness ==
    \E t \in 1..Len(udp_transfers) :
        LET log == udp_transfers[t].log IN
        /\ Len(log) = 3
        /\ IsPayload(log[1]) /\ IsPayload(log[2]) /\ IsPayload(log[3])
        /\ SegmentNumberOf(log[1]) = SegmentNumberOf(log[3])
        /\ SegmentNumberOf(log[1]) # SegmentNumberOf(log[2])
        /\ log[1].plen # log[3].plen
        /\ udp_transfers[t].bytes_received = log[1].plen + log[2].plen

\* C5: the successRate a client UDP transfer reports, the number of distinct
\* segment numbers received over the totalSegments of the first valid
\* segment, times 100, never exceeds 100, whatever datagrams it received.
C5_SuccessRateAtMost100 ==
    \A t \in 1..Len(udp_transfers) :
        udp_transfers[t].success_rate # <<>> =>
            udp_transfers[t].success_rate[1].num
                <= 100 * udp_transfers[t].success_rate[1].den

(***************************************************************************)
(* Claims about the client's main thread.                                  *)
(***************************************************************************)

\* the transfer numbers of the threads running target, in start order
NumbersOf(target) ==
    LET ts == SelectSeq(threads, LAMBDA th : th.target = target)
    IN  [k \in 1..Len(ts) |-> ts[k].transfer_num]

\* C1: once _run_speed_test has started its threads there are exactly
\* tcp_count TCP transfers numbered 1..tcp_count and udp_count UDP transfers
\* numbered 1..udp_count, and it has not returned unless every one of them
\* has ended, with or without an error.
C1_AllStartedAllJoined ==
    /\ client.pc \in {"join", "complete"} =>
            /\ NumbersOf("_tcp_transfer") = [k \in 1..client.tcp_count |-> k]
            /\ NumbersOf("_udp_transfer") = [k \in 1..client.udp_count |-> k]
            /\ Len(threads) = client.tcp_count + client.udp_count
    /\ client.pc = "complete" =>
            \A k \in 1..Len(threads) : threads[k].state = "finished"

\* _run_speed_test has returned from two TCP and two UDP transfers that all
\* ran at the same time, some of which ended with an error and some without
C1_Witness ==
    /\ client.pc = "complete"
    /\ client.tcp_count = 2 /\ client.udp_count = 2
    /\ client.peak = 4
    /\ \E k \in 1..Len(threads) : threads[k].outcome = "ok"
    /\ \E k \in 1..Len(threads) : threads[k].outcome = "error"

\* C6: once 10 seconds have passed in _wait_for_offer without a datagram, it
\* no longer listens: it has signalled "no offer" to start.
C6_TimeoutSignalsNoOffer ==
    client.timed_out => client.pc # "wait_for_offer"

\* C7: a call of _wait_for_offer that has received only invalid datagrams,
\* with never 10 seconds between them, no longer listens once more than 10
\* seconds have passed since it was called: it has reported "no offer".
C7_InvalidDatagramsDoNotExtendWindow ==
    (client.discarded /\ ~client.timed_out /\ client.window > 10)
        => client.pc # "wait_for_offer"

\* an Offer datagram, by the wire format: at least 9 bytes, the magic cookie
\* 0xABCDDCBA and the type byte 0x02
IsOffer(d) ==
    /\ DgramLen(d) >= 9
    /\ SubSeq(d.hdr, 1, 5) = <<171, 205, 220, 186, 2>>

\* C8: _wait_for_offer is never still listening after it received an Offer
\* datagram, and what it returned on one is the sender's IP address and the
\* (udp_port, tcp_port) whose big-endian encoding is bytes 6..9 of that
\* datagram, also when invalid datagrams came before it.
C8_OfferReturnedAtOnce ==
    /\ client.pc = "wait_for_offer" => ~IsOffer(client.data)
    /\ client.pc = "got_offer" =>
            /\ IsOffer(client.data)
            /\ client.server_ip = client.addr[1]
            /\ Len(client.server_ports) = 2
            /\ client.server_ports[1]
                    = client.data.hdr[6] * 256 + client.data.hdr[7]
            /\ client.server_ports[2]
                    = client.data.hdr[8] * 256 + client.data.hdr[9]
            /\ PackOffer(client.server_ports[1], client.server_ports[2])
                    = SubSeq(client.data.hdr, 1, 9)

\* an Offer of ports (513, 258) was returned after an invalid datagram
C8_Witness ==
    /\ client.pc = "got_offer"
    /\ client.discarded
    /\ client.server_ports = <<513, 258>>
    /\ client.server_ip = "10.0.0.9"

(***************************************************************************)
(* The three places where datagrams are decoded, each on its own.          *)
(***************************************************************************)
SpecDecode ==
    /\ ClientInit \/ UdpClientInit \/ UdpServerInit
    /\ [][ClientNext \/ UdpClientNext \/ UdpServerNext]_vars

\* a Request datagram, by the wire format: at least 13 bytes, the magic
\* cookie 0xABCDDCBA and the type byte 0x03
IsRequest(d) ==
    /\ DgramLen(d) >= 13
    /\ SubSeq(d.hdr, 1, 5) = <<171, 205, 220, 186, 3>>

\* C9: a step in which a decode site receives a datagram that is too short,
\* has another magic cookie or another type byte changes nothing but the
\* site's clock and record of what it received: _wait_for_offer returns
\* nothing and starts no thread, _udp_transfer keeps bytes_received,
\* segments_received and total_segments, _handle_udp_requests starts no
\* handler, and each is still in its receive loop, with no error.
C9_InvalidDatagramIgnored ==
    [][ /\ (/\ client.pc = "wait_for_offer"
            /\ client'.recvs = client.recvs + 1
            /\ ~IsOffer(client'.data))
            => /\ client'.pc = "wait_for_offer"
               /\ client'.server_ip = client.server_ip
               /\ client'.server_ports = client.server_ports
               /\ threads' = threads
        /\ \A t \in 1..Len(udp_transfers) :
            (/\ Len(udp_transfers') = Len(udp_transfers)
             /\ udp_transfers'[t].recvs = udp_transfers[t].recvs + 1
             /\ ~IsPayload(udp_transfers'[t].log[Len(udp_transfers'[t].log)]))
            => /\ udp_transfers'[t].pc = "recv"
               /\ udp_transfers'[t].bytes_received
                    = udp_transfers[t].bytes_received
               /\ udp_transfers'[t].segments_received
                    = udp_transfers[t].segments_received
               /\ udp_transfers'[t].total_segments
                    = udp_transfers[t].total_segments
               /\ udp_transfers'[t].success_rate = <<>>
        /\ (/\ udp_server'.recvs = udp_server.recvs + 1
            /\ udp_server'.last = "data"
            /\ ~IsRequest(udp_server'.data))
            => /\ udp_server'.pc = "recv"
               /\ udp_handlers' = udp_handlers
      ]_vars

\* a UDP transfer that received a segment, then a datagram too short to be
\* a Payload, then a Request, is still receiving with what the segment gave
C9_Witness ==
    \E t \in 1..Len(udp_transfers) :
        LET tr == udp_transfers[t] IN
        /\ tr.pc = "recv"
        /\ Len(tr.log) = 3
        /\ IsPayload(tr.log[1])
        /\ DgramLen(tr.log[2]) = 20
        /\ DgramLen(tr.log[3]) >= 21 /\ tr.log[3].hdr[5] = 3
        /\ tr.bytes_received = tr.log[1].plen
        /\ Cardinality(tr.segments_received) = 1

(***************************************************************************)
(* Claims about the server's TCP handler.                                  *)
(***************************************************************************)

\* C3: a TCP handler that parsed a positive size writes file_size bytes in
\* all, in writes of at most 1024 bytes: it never writes more, and when it
\* has ended without an error it has written exactly file_size bytes and
\* closed the connection.
C3_TcpWritesExactlyFileSize ==
    \A c \in 1..Len(tcp_handlers) :
        LET hd == tcp_handlers[c]
            cn == tcp_conns[c]
        IN  /\ cn.wrote <= hd.file_size
            /\ cn.max_write <= 1024
            /\ (hd.pc = "closed" /\ ~hd.failed) =>
                    /\ cn.wrote = hd.file_size
                    /\ cn.server_closed

(***************************************************************************)
(* Claims about a whole transfer.                                          *)
(***************************************************************************)

\* the UDP half of C10: a UDP transfer that has ended learned
\* ceil(file_size / 1024) as the total, received every segment number from
\* 0 to the total - 1 and reports 100%
EndToEndUdpComplete ==
    \A t \in 1..Len(udp_transfers) :
        LET tr == udp_transfers[t] IN
        tr.pc = "done" =>
            /\ tr.total_segments = <<CeilDiv(tr.file_size, 1024)>>
            /\ tr.segments_received = 0..(tr.total_segments[1] - 1)
            /\ tr.success_rate # <<>>
            /\ tr.success_rate[1].num = 100 * tr.success_rate[1].den

\* the TCP half of C10: a TCP transfer that has ended received exactly
\* file_size bytes
EndToEndTcpComplete ==
    \A c \in 1..Len(tcp_transfers) :
        tcp_transfers[c].pc \in {"done", "error"} =>
            tcp_transfers[c].bytes_received = tcp_transfers[c].file_size

\* C10: on a network that loses, repeats and corrupts nothing and is never
\* late, a TCP transfer of file_size bytes ends with exactly file_size bytes
\* received, and a UDP transfer ends with every segment number from 0 to
\* ceil(file_size / 1024) - 1 received and a rate of 100%.
C10_EndToEndComplete == EndToEndTcpComplete /\ EndToEndUdpComplete

(***************************************************************************)
(* Claims about UDP transfers against the server.                          *)
(***************************************************************************)

\* the log holds no Payload datagram
NoPayloadIn(log) == \A i \in 1..Len(log) : ~IsPayload(log[i])

\* C11: a UDP handler started for a Request of 0 bytes sends nothing and does
\* not fail; a transfer that asked for 0 bytes receives no Payload and does
\* not fail; and a transfer that has left its loop without ever receiving a
\* Payload left it after a full inactivity window, learned no total, counted
\* 0 bytes and no segment, and reports a rate of 0.
C11_ZeroSegments ==
    /\ \A h \in 1..Len(udp_handlers) :
            udp_handlers[h].file_size = 0 =>
                /\ udp_handlers[h].out = <<>>
                /\ udp_handlers[h].total_segments = 0
                /\ udp_handlers[h].pc # "error"
    /\ \A t \in 1..Len(udp_transfers) :
        LET tr == udp_transfers[t] IN
        /\ tr.file_size = 0 => NoPayloadIn(tr.log) /\ tr.pc # "error"
        /\ (tr.pc = "done" /\ NoPayloadIn(tr.log)) =>
                /\ tr.idle = InactivityTicks
                /\ tr.total_segments = <<>>
                /\ tr.bytes_received = 0
                /\ tr.segments_received = {}
                /\ tr.success_rate # <<>>
                /\ tr.success_rate[1].num = 0
                /\ tr.success_rate[1].den # 0
        /\ tr.pc # "done" => tr.success_rate = <<>>

\* a transfer asked for 0 bytes, the server's handler for it ran to its end
\* without sending, and the transfer has ended with nothing received
C11_Witness ==
    \E t \in 1..Len(udp_transfers) : \E h \in 1..Len(udp_handlers) :
        /\ udp_transfers[t].file_size = 0
        /\ udp_transfers[t].request_delivered
        /\ udp_transfers[t].pc = "done"
        /\ udp_transfers[t].log = <<>>
        /\ udp_handlers[h].addr = ClientAddr(t)
        /\ udp_handlers[h].file_size = 0
        /\ udp_handlers[h].pc = "done"

\* C12: in a client UDP transfer every datagram recvfrom returns, valid or
\* not, a segment seen before or not, restarts the inactivity window and
\* leaves the transfer in its loop; the loop is left for the figures only
\* when a whole window has passed without a datagram; and a transfer in its
\* loop leaves it in the end, datagrams no longer arriving.
C12_InactivityEndsLoop ==
    /\ [][ \A t \in 1..Len(udp_transfers) :
            /\ udp_transfers'[t].recvs = udp_transfers[t].recvs + 1
                => /\ udp_transfers'[t].idle = 0
                   /\ udp_transfers'[t].pc = "recv"
            /\ (udp_transfers[t].pc = "recv" /\ udp_transfers'[t].pc = "done")
                => /\ udp_transfers[t].idle = InactivityTicks
                   /\ udp_transfers'[t].log = udp_transfers[t].log
         ]_vars
    /\ \A t \in {1} :
        (udp_transfers[t].pc = "recv") ~> (udp_transfers[t].pc # "recv")

\* a transfer has ended after a segment, then a datagram that is no Payload
\* one tick later, then the first segment again one tick after that
C12_Witness ==
    \E t \in 1..Len(udp_transfers) :
        LET tr == udp_transfers[t] IN
        /\ tr.pc = "done"
        /\ tr.idle = InactivityTicks
        /\ Len(tr.log) = 3
        /\ IsPayload(tr.log[1]) /\ ~IsPayload(tr.log[2]) /\ IsPayload(tr.log[3])
        /\ SegmentNumberOf(tr.log[1]) = SegmentNumberOf(tr.log[3])

(***************************************************************************)
(* Claims about the server as a whole.                                     *)
(***************************************************************************)

\* the three loops of the server
ServerLoops == <<broadcaster, tcp_server, udp_server>>

\* C13: the broadcaster, the accept loop and the UDP receive loop are in
\* their loops at every point; a round of one of them that fails changes
\* neither of the other two nor any handler; and a TCP or UDP handler that
\* fails changes none of the three loops and no other handler.
C13_FailuresStayLocal ==
    /\ [](/\ broadcaster.pc = "loop"
          /\ tcp_server.pc = "accept"
          /\ udp_server.pc = "recv")
    /\ [][ /\ broadcaster'.errors # broadcaster.errors
                => /\ <<tcp_server, udp_server>>' = <<tcp_server, udp_server>>
                   /\ <<tcp_handlers, udp_handlers>>'
                        = <<tcp_handlers, udp_handlers>>
           /\ tcp_server'.errors # tcp_server.errors
                => /\ <<broadcaster, udp_server>>' = <<broadcaster, udp_server>>
                   /\ <<tcp_handlers, udp_handlers>>'
                        = <<tcp_handlers, udp_handlers>>
           /\ udp_server'.errors # udp_server.errors
                => /\ <<broadcaster, tcp_server>>' = <<broadcaster, tcp_server>>
                   /\ <<tcp_handlers, udp_handlers>>'
                        = <<tcp_handlers, udp_handlers>>
           /\ \A c \in 1..Len(tcp_handlers) :
                (tcp_handlers'[c].failed /\ ~tcp_handlers[c].failed)
                    => /\ ServerLoops' = ServerLoops
                       /\ udp_handlers' = udp_handlers
                       /\ \A d \in 1..Len(tcp_handlers) :
                            d # c => tcp_handlers'[d] = tcp_handlers[d]
           /\ \A h \in 1..Len(udp_handlers) :
                (/\ Len(udp_handlers') = Len(udp_handlers)
                 /\ udp_handlers'[h].pc = "error"
                 /\ udp_handlers[h].pc # "error")
                    => /\ ServerLoops' = ServerLoops
                       /\ tcp_handlers' = tcp_handlers
                       /\ \A g \in 1..Len(udp_handlers) :
                            g # h => udp_handlers'[g] = udp_handlers[g]
         ]_vars

\* each loop has had a round that failed and a later one that did not: an
\* offer went out, a connection was accepted and a Request started a
\* handler; the TCP handler failed and the UDP handler ran to its end
C13_Witness ==
    /\ broadcaster.errors > 0 /\ broadcaster.last = "sent"
    /\ tcp_server.errors > 0 /\ tcp_server.last = "accepted"
    /\ udp_server.errors > 0 /\ udp_server.last = "data"
    /\ tcp_handlers[1].failed
    /\ Len(udp_handlers) = 1 /\ udp_handlers[1].pc = "done"

(***************************************************************************)
(* Claims about the client's cycle.                                        *)
(***************************************************************************)

\* the steps of the cycle: from where to where the main thread may go
CycleSteps ==
    {<<"idle", "wait_for_offer">>, <<"wait_for_offer", "got_offer">>,
     <<"got_offer", "spawn_tcp">>, <<"spawn_tcp", "spawn_udp">>,
     <<"spawn_udp", "join">>, <<"join", "complete">>,
     <<"complete", "wait_for_offer">>}

\* C14: the main thread goes from idle to listening, from an offer to its
\* transfers and from them back to listening, and nowhere else; once it has
\* an offer's transfers to start it comes to listen again, whatever way each
\* transfer ended; file_size, tcp_count and udp_count never change, and every
\* transfer is started with that file_size.
C14_CycleForever ==
    /\ [][ /\ client'.pc # client.pc => <<client.pc, client'.pc>> \in CycleSteps
           /\ client'.file_size = client.file_size
           /\ client'.tcp_count = client.tcp_count
           /\ client'.udp_count = client.udp_count
         ]_vars
    /\ [](\A k \in 1..Len(threads) : threads[k].file_size = client.file_size)
    /\ (client.pc \in {"spawn_tcp", "spawn_udp", "join"})
            ~> (client.pc = "wait_for_offer")
    /\ (client.pc = "got_offer") ~> (client.pc = "join")

\* the client listens again after a speed test, and an offer has come
C14_Witness ==
    /\ client.tested
    /\ client.pc = "got_offer"
    /\ client.tcp_count = 1 /\ client.udp_count = 2
    /\ client.file_size = 2049

(***************************************************************************)
(* Claims about the client's TCP transfer.                                 *)
(***************************************************************************)

\* C15: a TCP transfer that has printed its figures, also one whose peer
\* closed before file_size bytes came, raised no error and computed its
\* speed from the bytes it received: (bytes_received * 8) / duration.
C15_SpeedFromBytesReceived ==
    \A c \in 1..Len(tcp_transfers) :
        tcp_transfers[c].pc = "done" =>
            /\ ~tcp_transfers[c].failed
            /\ tcp_transfers[c].speed_bytes = <<tcp_transfers[c].bytes_received>>

\* C16: whatever way the bytes of the client's request line reach the
\* server's reads, what the handler parses is the whole line: the size it
\* serves is the file_size the client asked for.
C16_WholeRequestLineParsed ==
    \A c \in 1..Len(tcp_handlers) :
        tcp_handlers[c].data # <<>> =>
            /\ ParseInt(tcp_handlers[c].data) = <<tcp_transfers[c].file_size>>
            /\ tcp_handlers[c].file_size = tcp_transfers[c].file_size

\* all that the peer of connection c wrote: what the handler read and what
\* is still unread
RequestOf(c) == tcp_handlers[c].data \o tcp_conns[c].c2s

\* C17: on a connection whose request is no positive integer (zero,
\* negative, not a number, or nothing at all) the handler writes no byte,
\* and when it has ended it has failed and closed the connection; the accept
\* loop is still accepting.
C17_BadRequestRejected ==
    \A c \in 1..Len(tcp_handlers) :
        (ParseInt(RequestOf(c)) = <<>> \/ ParseInt(RequestOf(c))[1] <= 0) =>
            /\ tcp_conns[c].wrote = 0
            /\ tcp_handlers[c].pc # "send"
            /\ tcp_handlers[c].pc = "closed" =>
                    tcp_handlers[c].failed /\ tcp_conns[c].server_closed
            /\ tcp_server.pc = "accept"

(***************************************************************************)
(* Claims about the numbering of segments.                                 *)
(***************************************************************************)

\* the totalSegments field of a Payload datagram: bytes 6 to 13
TotalSegmentsOf(d) ==
    LET b == d.hdr IN
    ((((((b[6] * 256 + b[7]) * 256 + b[8]) * 256 + b[9]) * 256 + b[10])
        * 256 + b[11]) * 256 + b[12]) * 256 + b[13]

\* C18: the k-th datagram a UDP handler sends is a Payload with
\* segmentNumber k - 1, so the numbers go up by one from 0 and none is sent
\* twice; every datagram of the handler carries the same totalSegments, no
\* handler sends more datagrams than that, and one that has run to its end
\* has sent exactly that many.
C18_SegmentNumbering ==
    \A h \in 1..Len(udp_handlers) :
        LET sent == SentBy(h) IN
        /\ \A k \in 1..Len(sent) :
                /\ IsPayload(sent[k])
                /\ SegmentNumberOf(sent[k]) = k - 1
                /\ TotalSegmentsOf(sent[k]) = TotalSegmentsOf(sent[1])
                /\ Len(sent) <= TotalSegmentsOf(sent[k])
        /\ (udp_handlers[h].pc = "done" /\ sent # <<>>) =>
                Len(sent) = TotalSegmentsOf(sent[1])

\* a handler for 2049 bytes has ended after the segments 0, 1 and 2 of 3,
\* and another has failed after its first segment of 2
C18_Witness ==
    /\ \E h \in 1..Len(udp_handlers) :
            /\ udp_handlers[h].pc = "done"
            /\ Len(SentBy(h)) = 3
            /\ SegmentNumberOf(SentBy(h)[3]) = 2
            /\ TotalSegmentsOf(SentBy(h)[3]) = 3
    /\ \E h \in 1..Len(udp_handlers) :
            /\ udp_handlers[h].pc = "error"
            /\ Len(SentBy(h)) = 1
            /\ TotalSegmentsOf(SentBy(h)[1]) = 2

(***************************************************************************)
(* Claims about discovery and launch together.                             *)
(***************************************************************************)

\* the fileSize field of a Request datagram: bytes 6 to 13
FileSizeOf(d) ==
    LET b == d.hdr IN
    ((((((b[6] * 256 + b[7]) * 256 + b[8]) * 256 + b[9]) * 256 + b[10])
        * 256 + b[11]) * 256 + b[12]) * 256 + b[13]

\* C19: every connect of a TCP transfer is to the address the offer came
\* from, at the TCP port the server packed into it; every UDP transfer sends
\* one Request datagram carrying the configured file_size to that address at
\* the UDP port the server packed.
C19_TransfersUseOfferedPorts ==
    /\ \A c \in 1..Len(tcp_conns) :
        tcp_conns[c].state # "none" =>
            tcp_conns[c].to = <<ServerIp, broadcaster.tcp_port>>
    /\ \A t \in 1..Len(udp_transfers) :
        udp_transfers[t].request # <<>> =>
            /\ udp_transfers[t].request[1].to = <<ServerIp, broadcaster.udp_port>>
            /\ IsRequest(udp_transfers[t].request[1].dg)
            /\ FileSizeOf(udp_transfers[t].request[1].dg) = client.file_size
    /\ \A k \in 1..Len(threads) :
        /\ threads[k].server_ip = ServerIp
        /\ threads[k].file_size = client.file_size

\* a server on the ports (513, 258) was discovered; the TCP transfer has
\* connected and the UDP transfer has sent its Request for 2049 bytes
C19_Witness ==
    /\ broadcaster.udp_port = 513 /\ broadcaster.tcp_port = 258
    /\ client.file_size = 2049
    /\ \E c \in 1..Len(tcp_conns) : tcp_conns[c].state = "pending"
    /\ \E t \in 1..Len(udp_transfers) : udp_transfers[t].request # <<>>

(***************************************************************************)
(* Claims about UDP transfers that run at the same time.                   *)
(***************************************************************************)

\* the segment numbers of the Payload datagrams in the log
SegmentNumbersIn(log) ==
    {SegmentNumberOf(log[i]) : i \in {j \in 1..Len(log) : IsPayload(log[j])}}

\* C20: each handler of the server sends to the address one Request came
\* from, serves the size that Request asked for, and no two handlers serve
\* one address; what a client transfer has counted comes from the datagrams
\* its own socket received and fits its own Request: the total it learned
\* is ceil(file_size / 1024), its segment numbers are below that and its
\* bytes are at most file_size, whatever the other transfer asked for and
\* however the handlers' steps interleave.
C20_TransfersDoNotInterfere ==
    /\ \A h \in 1..Len(udp_handlers) :
        /\ \E t \in 1..Len(udp_transfers) :
                /\ udp_handlers[h].addr = ClientAddr(t)
                /\ udp_transfers[t].request_delivered
                /\ udp_handlers[h].file_size = udp_transfers[t].file_size
        /\ \A g \in 1..Len(udp_handlers) :
                g # h => udp_handlers[g].addr # udp_handlers[h].addr
    /\ \A t \in 1..Len(udp_transfers) :
        LET tr == udp_transfers[t]
            n == CeilDiv(tr.file_size, 1024)
        IN  /\ tr.segments_received = SegmentNumbersIn(tr.log)
            /\ tr.bytes_received = FirstArrivalBytes(tr.log, Len(tr.log))
            /\ tr.total_segments \in {<<>>, <<n>>}
            /\ tr.segments_received \subseteq 0..(n - 1)
            /\ tr.bytes_received <= tr.file_size
            /\ Len(tr.log) <= n

\* two transfers of different sizes are both being served: each handler is
\* in its loop with a segment sent, and each transfer has counted bytes
C20_Witness ==
    /\ Len(udp_handlers) = 2
    /\ udp_handlers[1].pc = "loop" /\ udp_handlers[1].out # <<>>
    /\ udp_handlers[2].pc = "loop" /\ udp_handlers[2].out # <<>>
    /\ udp_handlers[1].file_size # udp_handlers[2].file_size
    /\ udp_transfers[1].bytes_received > 0
    /\ udp_transfers[2].bytes_received > 0

====
